---- MODULE Spec2Model ----
(***************************************************************************)
(* A model of pyarch's CPU (src/pyarch/cpu.py): the register file, the     *)
(* instruction table and decoder, the operations, the trap / interrupt     *)
(* controller, and the fetch loop running beside an interrupt-producing    *)
(* thread.                                                                 *)
(*                                                                         *)
(* Width.  The source works on Python integers with MAXVAL = 2^32 - 1 and  *)
(* 8-bit memory cells.  TLC's integers end at 2^31 - 1, so the model keeps *)
(* the structure (a word is four memory cells, big-endian; MAXVAL is the   *)
(* largest four-cell word; MINVAL = -(MAXVAL + 1)) and makes the cell      *)
(* width a definition, ByteBits.  ByteBits = 8 is the source.              *)
(*                                                                         *)
(* Atomicity.  Every access to intr_mask, intr_pending and intr_event is   *)
(* a step of its own wherever another thread can observe the difference.   *)
(* The body of trap() runs under the CPU lock and reads none of the three, *)
(* so it is one step.                                                      *)
(***************************************************************************)
EXTENDS Integers, Sequences, FiniteSets, TLC

\* ---------------------------------------------------------------- bounds
\* Bits in a memory cell (8 in the source, see above).
ByteBits == 4
\* Length of the memory handed to CPU(memory).
MemLen == 96

\* ------------------------------------------------------------- constants
ByteRange == 2 ^ ByteBits
MAXVAL == (2 ^ (4 * ByteBits)) - 1
MINVAL == -(2 ^ (4 * ByteBits))

REG_PC == 0
REG_SP == 1
REG_RES == 2
REG_CARRY == 3
REG_RET == 4
REG_TRAP == 5
REG_RESVD == 32

TRAP_INTR == 16
TRAP_ILL == 32
TRAP_DIV == 48
TRAP_DTRAP == 64

IA_NONE == 0
IA_IMMED == 1
IA_ADDR == 2
IA_REG == 3

Regs == 0 .. REG_RESVD

\* The instruction table: argument kinds and the operation's name.
INSTRS ==
  << <<IA_NONE,  IA_NONE,  IA_NONE, "nop">>,
     <<IA_REG,   IA_ADDR,  IA_NONE, "savew">>,
     <<IA_REG,   IA_REG,   IA_NONE, "savewr">>,
     <<IA_IMMED, IA_ADDR,  IA_NONE, "savewi">>,
     <<IA_REG,   IA_ADDR,  IA_NONE, "loadw">>,
     <<IA_REG,   IA_REG,   IA_NONE, "loadwr">>,
     <<IA_REG,   IA_IMMED, IA_NONE, "loadwi">>,
     <<IA_REG,   IA_ADDR,  IA_NONE, "saveb">>,
     <<IA_REG,   IA_REG,   IA_NONE, "savebr">>,
     <<IA_IMMED, IA_ADDR,  IA_NONE, "savebi">>,
     <<IA_REG,   IA_ADDR,  IA_NONE, "loadb">>,
     <<IA_REG,   IA_REG,   IA_NONE, "loadbr">>,
     <<IA_REG,   IA_IMMED, IA_NONE, "loadbi">>,
     <<IA_REG,   IA_REG,   IA_REG,  "add">>,
     <<IA_REG,   IA_REG,   IA_REG,  "sub">>,
     <<IA_REG,   IA_REG,   IA_REG,  "mul">>,
     <<IA_REG,   IA_REG,   IA_REG,  "div">>,
     <<IA_REG,   IA_IMMED, IA_REG,  "addi">>,
     <<IA_REG,   IA_IMMED, IA_REG,  "subi">>,
     <<IA_REG,   IA_IMMED, IA_REG,  "muli">>,
     <<IA_REG,   IA_IMMED, IA_REG,  "divi">>,
     <<IA_ADDR,  IA_NONE,  IA_NONE, "jmp">>,
     <<IA_REG,   IA_REG,   IA_ADDR, "jmpeq">>,
     <<IA_REG,   IA_REG,   IA_ADDR, "jmpne">>,
     <<IA_REG,   IA_REG,   IA_ADDR, "jmplt">>,
     <<IA_REG,   IA_REG,   IA_ADDR, "jmpgt">>,
     <<IA_REG,   IA_REG,   IA_ADDR, "jmple">>,
     <<IA_REG,   IA_REG,   IA_ADDR, "jmpge">>,
     <<IA_REG,   IA_IMMED, IA_ADDR, "jmpeqi">>,
     <<IA_REG,   IA_IMMED, IA_ADDR, "jmpnei">>,
     <<IA_REG,   IA_IMMED, IA_ADDR, "jmplti">>,
     <<IA_REG,   IA_IMMED, IA_ADDR, "jmpgti">>,
     <<IA_REG,   IA_IMMED, IA_ADDR, "jmplei">>,
     <<IA_REG,   IA_IMMED, IA_ADDR, "jmpgei">>,
     <<IA_NONE,  IA_NONE,  IA_NONE, "halt">>,
     <<IA_NONE,  IA_NONE,  IA_NONE, "intr">>,
     <<IA_NONE,  IA_NONE,  IA_NONE, "ret">>,
     <<IA_NONE,  IA_NONE,  IA_NONE, "eni">>,
     <<IA_NONE,  IA_NONE,  IA_NONE, "dsi">>,
     <<IA_NONE,  IA_NONE,  IA_NONE, "wait">>,
     <<IA_REG,   IA_REG,   IA_NONE, "swap">>,
     <<IA_REG,   IA_REG,   IA_NONE, "copy">>,
     <<IA_REG,   IA_REG,   IA_REG,  "and_">>,
     <<IA_REG,   IA_REG,   IA_REG,  "or_">>,
     <<IA_REG,   IA_REG,   IA_REG,  "xor_">>,
     <<IA_REG,   IA_IMMED, IA_REG,  "andi">>,
     <<IA_REG,   IA_IMMED, IA_REG,  "ori">>,
     <<IA_REG,   IA_IMMED, IA_REG,  "xori">>,
     <<IA_REG,   IA_REG,   IA_NONE, "not_">>,
     <<IA_REG,   IA_REG,   IA_REG,  "shl">>,
     <<IA_REG,   IA_REG,   IA_REG,  "shr">>,
     <<IA_REG,   IA_IMMED, IA_REG,  "shli">>,
     <<IA_REG,   IA_IMMED, IA_REG,  "shri">> >>

\* Opcode of an operation (its index in INSTRS, from 0).
Op(name) == (CHOOSE i \in 1 .. Len(INSTRS) : INSTRS[i][4] = name) - 1

\* ------------------------------------------------- Python integer operators
\* a % m for a modulus of either sign (the result takes the modulus's sign).
PyMod(a, m) == IF m > 0 THEN a % m ELSE -((-a) % (-m))

\* a // b, rounding toward minus infinity, for b # 0.
PyFloorDiv(a, b) == IF b > 0 THEN a \div b ELSE (-a) \div (-b)

RECURSIVE BitAnd(_, _)
BitAnd(a, b) ==
  IF a = 0 \/ b = 0 THEN 0
  ELSE IF a = -1 THEN b
  ELSE IF b = -1 THEN a
  ELSE ((a % 2) * (b % 2)) + 2 * BitAnd(a \div 2, b \div 2)

RECURSIVE BitOr(_, _)
BitOr(a, b) ==
  IF a = 0 THEN b
  ELSE IF b = 0 THEN a
  ELSE IF a = -1 \/ b = -1 THEN -1
  ELSE (IF (a % 2) + (b % 2) > 0 THEN 1 ELSE 0) + 2 * BitOr(a \div 2, b \div 2)

RECURSIVE BitXor(_, _)
BitXor(a, b) ==
  IF a = 0 THEN b
  ELSE IF b = 0 THEN a
  ELSE IF a = -1 /\ b = -1 THEN 0
  ELSE (((a % 2) + (b % 2)) % 2) + 2 * BitXor(a \div 2, b \div 2)

BitNot(a) == -a - 1

\* ------------------------------------------------------- result of a call
\* What an operation leaves behind: the registers and memory it wrote, the
\* vector of the trap it called (0: none), and whether it raised.
Ok(r, m) == [regs |-> r, mem |-> m, trap |-> 0, exc |-> FALSE]
Trapped(r, m, v) == [regs |-> r, mem |-> m, trap |-> v, exc |-> FALSE]
Raised(r, m) == [regs |-> r, mem |-> m, trap |-> 0, exc |-> TRUE]

\* memory[a] of a Python sequence of MemLen cells: a negative index counts
\* from the end, anything outside raises IndexError.
MemOK(a) == a >= -MemLen /\ a < MemLen
MemIdx(a) == IF a < 0 THEN a + MemLen ELSE a

\* ------------------------------------------------------------- trap (body)
\* The registers after the locked part of trap(addr): the double-trap
\* escalation re-enters with TRAP_DTRAP; otherwise TRAP, RET and PC are set,
\* PC through jmp, which traps ILL on a negative address.
\* trap without the double-trap test.
trapNoEscalation(r, addr) ==
  LET r1 == [r EXCEPT ![REG_TRAP] = 1]
      r2 == [r1 EXCEPT ![REG_RET] = r1[REG_PC]]
  IN  [r2 EXCEPT ![REG_PC] = addr]

\* trap that saves RET after the jump.
trapLateRet(r, addr) ==
  LET v == IF r[REG_TRAP] # 0 /\ addr # TRAP_DTRAP THEN TRAP_DTRAP ELSE addr
      r1 == [r EXCEPT ![REG_TRAP] = 1]
      r2 == [r1 EXCEPT ![REG_PC] = v]
  IN  [r2 EXCEPT ![REG_RET] = r2[REG_PC]]

RECURSIVE trap(_, _)
trap(r, addr) ==
  IF r[REG_TRAP] # 0 /\ addr # TRAP_DTRAP
  THEN trap(r, TRAP_DTRAP)
  ELSE LET r1 == [r EXCEPT ![REG_TRAP] = 1]
           r2 == [r1 EXCEPT ![REG_RET] = r1[REG_PC]]
       IN  IF addr < 0 THEN trap(r2, TRAP_ILL)
           ELSE [r2 EXCEPT ![REG_PC] = addr]

\* ------------------------------------------------------------ operations
jmp(r, m, addr) ==
  IF addr < 0 THEN Trapped(r, m, TRAP_ILL)
  ELSE Ok([r EXCEPT ![REG_PC] = addr], m)

jmpeq(r, m, reg1, reg2, addr) ==
  IF r[reg1] = r[reg2] THEN jmp(r, m, addr) ELSE Ok(r, m)

jmpeqi(r, m, reg1, val, addr) ==
  jmpeq([r EXCEPT ![REG_RESVD] = val], m, reg1, REG_RESVD, addr)

jmpne(r, m, reg1, reg2, addr) ==
  IF r[reg1] # r[reg2] THEN jmp(r, m, addr) ELSE Ok(r, m)

jmpnei(r, m, reg1, val, addr) ==
  jmpne([r EXCEPT ![REG_RESVD] = val], m, reg1, REG_RESVD, addr)

jmpgt(r, m, reg1, reg2, addr) ==
  IF r[reg1] > r[reg2] THEN jmp(r, m, addr) ELSE Ok(r, m)

jmpgti(r, m, reg1, val, addr) ==
  jmpgt([r EXCEPT ![REG_RESVD] = val], m, reg1, REG_RESVD, addr)

jmpge(r, m, reg1, reg2, addr) ==
  IF r[reg1] >= r[reg2] THEN jmp(r, m, addr) ELSE Ok(r, m)

jmpgei(r, m, reg1, val, addr) ==
  jmpge([r EXCEPT ![REG_RESVD] = val], m, reg1, REG_RESVD, addr)

jmplt(r, m, reg1, reg2, addr) ==
  IF r[reg1] < r[reg2] THEN jmp(r, m, addr) ELSE Ok(r, m)

jmplti(r, m, reg1, val, addr) ==
  jmplt([r EXCEPT ![REG_RESVD] = val], m, reg1, REG_RESVD, addr)

jmple(r, m, reg1, reg2, addr) ==
  IF r[reg1] <= r[reg2] THEN jmp(r, m, addr) ELSE Ok(r, m)

jmplei(r, m, reg1, val, addr) ==
  jmple([r EXCEPT ![REG_RESVD] = val], m, reg1, REG_RESVD, addr)

\* add that reduces modulo MAXVAL + 1.
addWrap(r, m, reg1, reg2, reg3) ==
  LET result == r[reg1] + r[reg2]
      r1 == [r EXCEPT ![reg3] = PyMod(result, MAXVAL + 1)]
  IN  Ok([r1 EXCEPT ![REG_CARRY] = IF result > MAXVAL THEN 1 ELSE 0], m)

add(r, m, reg1, reg2, reg3) ==
  LET result == r[reg1] + r[reg2]
      r1 == [r EXCEPT ![reg3] = PyMod(result, MAXVAL)]
  IN  Ok([r1 EXCEPT ![REG_CARRY] = IF result > MAXVAL THEN 1 ELSE 0], m)

addi(r, m, reg1, val, reg2) ==
  add([r EXCEPT ![REG_RESVD] = val], m, reg1, REG_RESVD, reg2)

\* sub that reduces modulo the positive modulus -MINVAL.
subPositive(r, m, reg1, reg2, reg3) ==
  LET result == r[reg1] - r[reg2]
      r1 == [r EXCEPT ![reg3] = PyMod(result, -MINVAL)]
  IN  Ok([r1 EXCEPT ![REG_CARRY] = IF result < MINVAL THEN 1 ELSE 0], m)

sub(r, m, reg1, reg2, reg3) ==
  LET result == r[reg1] - r[reg2]
      r1 == [r EXCEPT ![reg3] = PyMod(result, MINVAL)]
  IN  Ok([r1 EXCEPT ![REG_CARRY] = IF result < MINVAL THEN 1 ELSE 0], m)

subi(r, m, reg1, val, reg2) ==
  sub([r EXCEPT ![REG_RESVD] = val], m, reg1, REG_RESVD, reg2)

mul(r, m, reg1, reg2, reg3) ==
  LET result == r[reg1] * r[reg2]
      r1 == [r EXCEPT ![reg3] = PyMod(result, MAXVAL)]
  IN  Ok([r1 EXCEPT ![REG_CARRY] = IF result > MAXVAL THEN 1 ELSE 0], m)

muli(r, m, reg1, val, reg2) ==
  mul([r EXCEPT ![REG_RESVD] = val], m, reg1, REG_RESVD, reg2)

\* div that stores the dividend when the divisor is 0, and takes no trap.
divNoTrap(r, m, reg1, reg2, reg3) ==
  LET result == IF r[reg2] = 0 THEN r[reg1] ELSE PyFloorDiv(r[reg1], r[reg2])
      r1 == [r EXCEPT ![reg3] = result]
  IN  Ok([r1 EXCEPT ![REG_CARRY] = 0], m)

div(r, m, reg1, reg2, reg3) ==
  IF r[reg2] = 0 THEN Trapped(r, m, TRAP_DIV)
  ELSE LET result == PyFloorDiv(r[reg1], r[reg2])
           r1 == [r EXCEPT ![reg3] = result]
       IN  Ok([r1 EXCEPT ![REG_CARRY] = 0], m)

divi(r, m, reg1, val, reg2) ==
  div([r EXCEPT ![REG_RESVD] = val], m, reg1, REG_RESVD, reg2)

\* The four cell reads of loadw, in order from cell k: the first replaces
\* the register, the others are or-ed in; a read outside memory raises and
\* leaves the register as far as it got.
RECURSIVE LoadCells(_, _, _, _, _)
LoadCells(r, m, reg1, addr, k) ==
  IF k = 4 THEN Ok(r, m)
  ELSE IF ~MemOK(addr + k) THEN Raised(r, m)
  ELSE LET b == m[MemIdx(addr + k)] * (2 ^ ((3 - k) * ByteBits))
           v == IF k = 0 THEN b ELSE BitOr(r[reg1], b)
       IN  LoadCells([r EXCEPT ![reg1] = v], m, reg1, addr, k + 1)

loadw(r, m, reg1, addr) ==
  IF addr + 3 > MAXVAL THEN Trapped(r, m, TRAP_ILL)
  ELSE LoadCells(r, m, reg1, addr, 0)

loadwr(r, m, reg1, reg2) == loadw(r, m, reg1, r[reg2])

loadwi(r, m, reg1, val) == Ok([r EXCEPT ![reg1] = val], m)

\* Cell writes that put the low cell first.
RECURSIVE SaveCellsLowFirst(_, _, _, _, _)
SaveCellsLowFirst(r, m, reg1, addr, k) ==
  IF k = 4 THEN Ok(r, m)
  ELSE IF ~MemOK(addr + k) THEN Raised(r, m)
  ELSE LET b == (r[reg1] \div (2 ^ (k * ByteBits))) % ByteRange
       IN  SaveCellsLowFirst(r, [m EXCEPT ![MemIdx(addr + k)] = b], reg1, addr, k + 1)

\* The four cell writes of savew, in order from cell k; a write outside
\* memory raises and leaves the cells written so far.
RECURSIVE SaveCells(_, _, _, _, _)
SaveCells(r, m, reg1, addr, k) ==
  IF k = 4 THEN Ok(r, m)
  ELSE IF ~MemOK(addr + k) THEN Raised(r, m)
  ELSE LET b == (r[reg1] \div (2 ^ ((3 - k) * ByteBits))) % ByteRange
       IN  SaveCells(r, [m EXCEPT ![MemIdx(addr + k)] = b], reg1, addr, k + 1)

savew(r, m, reg1, addr) ==
  IF addr + 3 > MAXVAL THEN Trapped(r, m, TRAP_ILL)
  ELSE SaveCells(r, m, reg1, addr, 0)

savewr(r, m, reg1, reg2) == savew(r, m, reg1, r[reg2])

savewi(r, m, val, addr) ==
  savew([r EXCEPT ![REG_RESVD] = val], m, REG_RESVD, addr)

loadb(r, m, reg1, addr) ==
  IF ~MemOK(addr) THEN Raised(r, m)
  ELSE Ok([r EXCEPT ![reg1] = m[MemIdx(addr)]], m)

loadbr(r, m, reg1, reg2) == loadb(r, m, reg1, r[reg2])

loadbi(r, m, reg1, val) == Ok([r EXCEPT ![reg1] = val % ByteRange], m)

saveb(r, m, reg1, addr) ==
  IF ~MemOK(addr) THEN Raised(r, m)
  ELSE Ok(r, [m EXCEPT ![MemIdx(addr)] = r[reg1] % ByteRange])

savebr(r, m, reg1, reg2) == saveb(r, m, reg1, r[reg2])

savebi(r, m, val, addr) ==
  saveb([r EXCEPT ![REG_RESVD] = val], m, REG_RESVD, addr)

nop(r, m) == Ok(r, m)

\* reg1 receives the number reg2, not the register's value (cpu.py:240).
swap(r, m, reg1, reg2) ==
  LET temp == r[reg1]
      r1 == [r EXCEPT ![reg1] = reg2]
  IN  Ok([r1 EXCEPT ![reg2] = temp], m)

copy(r, m, reg1, reg2) == Ok([r EXCEPT ![reg1] = r[reg2]], m)

and_(r, m, reg1, reg2, reg3) ==
  Ok([r EXCEPT ![reg3] = BitAnd(r[reg1], r[reg2])], m)

andi(r, m, reg1, val, reg2) == Ok([r EXCEPT ![reg2] = BitAnd(r[reg1], val)], m)

or_(r, m, reg1, reg2, reg3) ==
  Ok([r EXCEPT ![reg3] = BitOr(r[reg1], r[reg2])], m)

ori(r, m, reg1, val, reg2) == Ok([r EXCEPT ![reg2] = BitOr(r[reg1], val)], m)

xor_(r, m, reg1, reg2, reg3) ==
  Ok([r EXCEPT ![reg3] = BitXor(r[reg1], r[reg2])], m)

xori(r, m, reg1, val, reg2) == Ok([r EXCEPT ![reg2] = BitXor(r[reg1], val)], m)

not_(r, m, reg1, reg2) == Ok([r EXCEPT ![reg2] = BitNot(r[reg1])], m)

\* x << n and x >> n; a negative count raises ValueError.
shli(r, m, reg1, val, reg2) ==
  IF val < 0 THEN Raised(r, m)
  ELSE Ok([r EXCEPT ![reg2] = r[reg1] * (2 ^ val)], m)

shl(r, m, reg1, reg2, reg3) == shli(r, m, reg1, r[reg2], reg3)

shri(r, m, reg1, val, reg2) ==
  IF val < 0 THEN Raised(r, m)
  ELSE Ok([r EXCEPT ![reg2] = r[reg1] \div (2 ^ val)], m)

shr(r, m, reg1, reg2, reg3) == shri(r, m, reg1, r[reg2], reg3)

\* instr_fn(self, *arglist) for the operations that touch only registers
\* and memory (and may call trap).
Exec(name, a, r, m) ==
  CASE name = "nop"    -> nop(r, m)
    [] name = "savew"  -> savew(r, m, a[1], a[2])
    [] name = "savewr" -> savewr(r, m, a[1], a[2])
    [] name = "savewi" -> savewi(r, m, a[1], a[2])
    [] name = "loadw"  -> loadw(r, m, a[1], a[2])
    [] name = "loadwr" -> loadwr(r, m, a[1], a[2])
    [] name = "loadwi" -> loadwi(r, m, a[1], a[2])
    [] name = "saveb"  -> saveb(r, m, a[1], a[2])
    [] name = "savebr" -> savebr(r, m, a[1], a[2])
    [] name = "savebi" -> savebi(r, m, a[1], a[2])
    [] name = "loadb"  -> loadb(r, m, a[1], a[2])
    [] name = "loadbr" -> loadbr(r, m, a[1], a[2])
    [] name = "loadbi" -> loadbi(r, m, a[1], a[2])
    [] name = "add"    -> add(r, m, a[1], a[2], a[3])
    [] name = "sub"    -> sub(r, m, a[1], a[2], a[3])
    [] name = "mul"    -> mul(r, m, a[1], a[2], a[3])
    [] name = "div"    -> div(r, m, a[1], a[2], a[3])
    [] name = "addi"   -> addi(r, m, a[1], a[2], a[3])
    [] name = "subi"   -> subi(r, m, a[1], a[2], a[3])
    [] name = "muli"   -> muli(r, m, a[1], a[2], a[3])
    [] name = "divi"   -> divi(r, m, a[1], a[2], a[3])
    [] name = "jmp"    -> jmp(r, m, a[1])
    [] name = "jmpeq"  -> jmpeq(r, m, a[1], a[2], a[3])
    [] name = "jmpne"  -> jmpne(r, m, a[1], a[2], a[3])
    [] name = "jmplt"  -> jmplt(r, m, a[1], a[2], a[3])
    [] name = "jmpgt"  -> jmpgt(r, m, a[1], a[2], a[3])
    [] name = "jmple"  -> jmple(r, m, a[1], a[2], a[3])
    [] name = "jmpge"  -> jmpge(r, m, a[1], a[2], a[3])
    [] name = "jmpeqi" -> jmpeqi(r, m, a[1], a[2], a[3])
    [] name = "jmpnei" -> jmpnei(r, m, a[1], a[2], a[3])
    [] name = "jmplti" -> jmplti(r, m, a[1], a[2], a[3])
    [] name = "jmpgti" -> jmpgti(r, m, a[1], a[2], a[3])
    [] name = "jmplei" -> jmplei(r, m, a[1], a[2], a[3])
    [] name = "jmpgei" -> jmpgei(r, m, a[1], a[2], a[3])
    [] name = "swap"   -> swap(r, m, a[1], a[2])
    [] name = "copy"   -> copy(r, m, a[1], a[2])
    [] name = "and_"   -> and_(r, m, a[1], a[2], a[3])
    [] name = "or_"    -> or_(r, m, a[1], a[2], a[3])
    [] name = "xor_"   -> xor_(r, m, a[1], a[2], a[3])
    [] name = "andi"   -> andi(r, m, a[1], a[2], a[3])
    [] name = "ori"    -> ori(r, m, a[1], a[2], a[3])
    [] name = "xori"   -> xori(r, m, a[1], a[2], a[3])
    [] name = "not_"   -> not_(r, m, a[1], a[2])
    [] name = "shl"    -> shl(r, m, a[1], a[2], a[3])
    [] name = "shr"    -> shr(r, m, a[1], a[2], a[3])
    [] name = "shli"   -> shli(r, m, a[1], a[2], a[3])
    [] name = "shri"   -> shri(r, m, a[1], a[2], a[3])

\* The operations that touch the interrupt state or stop the fetch loop:
\* each has an action of its own.
ControlOps == {"halt", "intr", "ret", "eni", "dsi", "wait"}

\* ret that leaves TRAP as it is.
retKeepTrap(r) == [r EXCEPT ![REG_PC] = r[REG_RET]]

\* ret's register writes: TRAP <- 0, PC <- RET.
ret(r) ==
  LET r1 == [r EXCEPT ![REG_TRAP] = 0]
  IN  [r1 EXCEPT ![REG_PC] = r1[REG_RET]]

\* ------------------------------------------------------------- programs
\* One 16-cell instruction: opcode and three operand words.
I(name, a, b, c) == <<Op(name), a, b, c>>
\* An opcode outside the table (0xFF).
ILLOP == <<255, 0, 0, 0>>

\* The four cells of a word, big-endian.
WordCells(v) ==
  << (v \div (ByteRange ^ 3)) % ByteRange, (v \div (ByteRange ^ 2)) % ByteRange,
     (v \div ByteRange) % ByteRange, v % ByteRange >>

\* A memory of MemLen cells holding prog from address 0, zero elsewhere.
Image(prog) ==
  [a \in 0 .. (MemLen - 1) |->
     IF a \div 16 < Len(prog)
     THEN WordCells(prog[(a \div 16) + 1][((a % 16) \div 4) + 1])[(a % 4) + 1]
     ELSE 0]

NOP == I("nop", 0, 0, 0)
HALT == I("halt", 0, 0, 0)

\* The programs the model runs.  Addresses 0x10, 0x20, 0x30 and 0x40 are the
\* trap vectors, so the second to fifth instruction of a program are also
\* its trap handlers.
Programs ==
  { \* illegal opcode at 0, and again in its own handler: a double trap
    << ILLOP, NOP, ILLOP, NOP, HALT >>,
    \* divide by zero, handler returns
    << I("div", 6, 7, 8), HALT, NOP, I("ret", 0, 0, 0), HALT >>,
    \* dsi; intr; eni, and the handler at 0x10 runs into them again
    << I("dsi", 0, 0, 0), I("intr", 0, 0, 0), I("eni", 0, 0, 0), NOP, HALT >>,
    \* two deferred interrupts before the eni
    << I("dsi", 0, 0, 0), I("intr", 0, 0, 0), I("intr", 0, 0, 0),
       I("eni", 0, 0, 0), HALT >>,
    \* a deferred interrupt, then a trap whose handler returns
    << I("dsi", 0, 0, 0), I("intr", 0, 0, 0), I("div", 6, 7, 8),
       I("ret", 0, 0, 0), HALT >>,
    \* wait for an interrupt, handler returns
    << I("wait", 0, 0, 0), I("ret", 0, 0, 0), HALT >>,
    \* wait with interrupts disabled
    << I("dsi", 0, 0, 0), I("wait", 0, 0, 0), I("eni", 0, 0, 0), HALT >>,
    \* register operands 0x20 and 0x21
    << I("loadwi", 32, 5, 0), I("loadwi", 33, 5, 0), HALT >>,
    \* a jump to the last three cells of the address space
    << I("jmp", MAXVAL - 2, 0, 0), HALT, NOP, HALT >>,
    \* a handler that enables interrupts while TRAP is set
    << ILLOP, HALT, I("eni", 0, 0, 0), I("ret", 0, 0, 0), HALT >>,
    \* a handler that defers an interrupt and enables while TRAP is set
    << ILLOP, HALT, I("dsi", 0, 0, 0), I("intr", 0, 0, 0), I("eni", 0, 0, 0), HALT >>,
    \* dsi; eni
    << I("dsi", 0, 0, 0), I("eni", 0, 0, 0), HALT >>,
    \* nothing but nop: the fetch runs off the end of memory
    << NOP >> }

\* One or two instructions at 0 (and 0x10), halt at every other trap vector.
One(i) == << i, HALT, HALT, HALT, HALT >>
Two(i, j) == << i, j, HALT, HALT, HALT >>

\* An address behind the programs, for stores.
DataAddr == 84

\* Register values the arithmetic programs start from: the ends of the
\* range, values next to them and small ones.  loadwi gives every value
\* from 0 to MAXVAL, not_ of these every value from MINVAL to -1.
Vals == {MINVAL, MINVAL + 1, -2, -1, 0, 1, 2, 3, MAXVAL - 1, MAXVAL}
\* Second operands of a product or a shift.
Small == -2 .. 3
\* Immediate operands (words of the instruction).
Immeds == {0, 1, 2, MAXVAL - 1, MAXVAL}

\* Programs run from every pair of values in R6, R7.
WidePrograms ==
  { One(I("add", 6, 7, 8)), One(I("sub", 6, 7, 8)), One(I("div", 6, 7, 8)),
    \* a destination that trap writes
    One(I("div", 6, 7, REG_RET)),
    One(I("swap", 6, 7, 0)),
    \* store and load back, address in the instruction and in R9 = 0x54
    Two(I("savew", 6, DataAddr, 0), I("loadw", 8, DataAddr, 0)),
    << I("loadwi", 9, DataAddr, 0), I("savewr", 6, 9, 0), I("loadwr", 8, 9, 0),
       HALT, HALT >> }
  \cup { One(I(op, 6, v, 8)) : op \in {"addi", "subi", "divi"}, v \in Immeds }

\* Programs run from every value in R6 and a small one in R7.
NarrowPrograms ==
  { One(I("mul", 6, 7, 8)), One(I("shl", 6, 7, 8)),
    One(I("muli", 6, 0, 8)), One(I("muli", 6, 1, 8)), One(I("muli", 6, 2, 8)),
    One(I("shli", 6, 1, 8)) }

\* Programs run from registers all 0.
FixedPrograms ==
  Programs \cup
  { \* divide by zero inside a trap handler
    << ILLOP, HALT, I("div", 6, 7, 8), HALT, HALT >>,
    \* the scratch register as source and as destination of an immediate form
    One(I("addi", REG_RESVD, 5, 8)), One(I("divi", 6, 0, REG_RESVD)),
    \* loadwi into CARRY and into TRAP
    One(I("loadwi", REG_CARRY, 5, 0)), One(I("loadwi", REG_TRAP, 7, 0)),
    \* store an immediate and load it back
    Two(I("savewi", MAXVAL - 1, DataAddr, 0), I("loadw", 8, DataAddr, 0)),
    \* a fetch from the last three cells of the address space with 0xFF left
    \* in the scratch register
    << I("jmp", MAXVAL - 2, 0, 255), HALT, HALT, HALT, HALT >> }

\* A program with the values R6 and R7 start with.
OpCases ==
  [prog : WidePrograms, a : Vals, b : Vals]
  \cup [prog : NarrowPrograms, a : Vals, b : Small]
  \cup [prog : FixedPrograms, a : {0}, b : {0}]

\* ----------------------------------------------------------------- state
Producers == {"p1"}
Threads == {"cpu"} \cup Producers

\* Vectors a producer passes to trap() itself; TRAP_INTR goes through intr().
DirectVectors == {TRAP_ILL, TRAP_DIV, TRAP_DTRAP}

VARIABLES
  registers,     \* self.registers
  memory,        \* self.memory
  cpu_lock,      \* owner of self.cpu_lock: "free" or a thread
  intr_mask,     \* self.intr_mask
  intr_pending,  \* self.intr_pending
  intr_event,    \* self.intr_event is set
  exit_event,    \* self.exit_event is set
  pc,            \* where each thread is
  tvec,          \* the argument of the trap() call a thread is in, or that the
                 \* fetch loop made last in the current step (0: none)
  cont,          \* where the fetch loop continues after the call it is in
  ir,            \* opcode, op1, op2, op3 as far as fetched
  \* history, written by no operation of the program:
  pre,           \* registers when the current step began (start), registers and
                 \* flags when its instruction was decoded
  hist,          \* traps since the last instruction other than ret, and PC before the first
  step_traps,    \* trap bodies the fetch loop ran in the current step
  after_dsi,     \* a dsi has run and no eni or ret has since
  last,          \* the instruction of the fetch loop's previous complete step
  deferred       \* intr() calls since that dsi that found the mask set

vars == << registers, memory, cpu_lock, intr_mask, intr_pending, intr_event,
           exit_event, pc, tvec, cont, ir, pre, hist, step_traps, after_dsi,
           last, deferred >>

\* Cap of the history counter deferred.
DeferCap == 3

ZeroRegs == [i \in Regs |-> 0]
NoPre == [start |-> ZeroRegs, regs |-> ZeroRegs, mask |-> FALSE, pending |-> FALSE]
NoLast == [name |-> "none", ops |-> << >>, regs |-> ZeroRegs]
NoHist == [n |-> 0, pc0 |-> 0]

Init ==
  /\ registers = ZeroRegs
  /\ memory \in {Image(p) : p \in Programs}
  /\ cpu_lock = "free"
  /\ intr_mask = FALSE
  /\ intr_pending = FALSE
  /\ intr_event = FALSE
  /\ exit_event = FALSE
  /\ pc = [t \in Threads |-> IF t = "cpu" THEN "yield" ELSE "idle"]
  /\ tvec = [t \in Threads |-> 0]
  /\ cont = "end"
  /\ ir = << >>
  /\ pre = NoPre
  /\ hist = NoHist
  /\ step_traps = 0
  /\ deferred = 0
  /\ after_dsi = FALSE
  /\ last = NoLast

\* The state after construction with one of the arithmetic programs, R6 and
\* R7 holding its values.
OpInit ==
  \E c \in OpCases :
    /\ registers = [ZeroRegs EXCEPT ![6] = c.a, ![7] = c.b]
    /\ memory = Image(c.prog)
    /\ cpu_lock = "free"
    /\ intr_mask = FALSE
    /\ intr_pending = FALSE
    /\ intr_event = FALSE
    /\ exit_event = FALSE
    /\ pc = [t \in Threads |-> IF t = "cpu" THEN "yield" ELSE "idle"]
    /\ tvec = [t \in Threads |-> 0]
    /\ cont = "end"
    /\ ir = << >>
    /\ pre = NoPre
    /\ hist = NoHist
    /\ step_traps = 0
    /\ deferred = 0
    /\ after_dsi = FALSE
    /\ last = NoLast

\* The operation of the fetched instruction ("illegal": opcode outside the
\* table, "none": not yet fetched).
CurName ==
  IF Len(ir) < 4 THEN "none"
  ELSE IF ir[1] >= Len(INSTRS) THEN "illegal"
  ELSE INSTRS[ir[1] + 1][4]

\* Where a thread continues when the call it is in returns.
Return(t) == IF t = "cpu" THEN cont ELSE "idle"

\* A lock that anyone can take at any time.
CanAcquireAlways(t) == TRUE

\* The RLock can be taken by t: it is free or t holds it already.
CanAcquire(t) == cpu_lock \in {"free", t}

\* ------------------------------------------- intr() and trap(), any thread
\* intr(): the test of intr_mask (cpu.py:216).
IntrTest(t) ==
  /\ pc[t] = "intr_test"
  /\ pc' = [pc EXCEPT ![t] = IF intr_mask THEN "intr_defer" ELSE "intr_clear"]
  /\ deferred' = IF intr_mask /\ after_dsi /\ deferred < DeferCap
                 THEN deferred + 1 ELSE deferred
  /\ UNCHANGED << registers, memory, cpu_lock, intr_mask, intr_pending, intr_event,
                  exit_event, tvec, cont, ir, pre, hist, step_traps, after_dsi, last >>

\* intr(), masked: intr_pending = True (cpu.py:217).
IntrDefer(t) ==
  /\ pc[t] = "intr_defer"
  /\ intr_pending' = TRUE
  /\ pc' = [pc EXCEPT ![t] = Return(t)]
  /\ UNCHANGED << registers, memory, cpu_lock, intr_mask, intr_event, exit_event,
                  tvec, cont, ir, pre, hist, step_traps, deferred, after_dsi, last >>

\* intr(), unmasked: intr_pending = False, then the call of trap(TRAP_INTR)
\* (cpu.py:219-220).
IntrClear(t) ==
  /\ pc[t] = "intr_clear"
  /\ intr_pending' = FALSE
  /\ tvec' = [tvec EXCEPT ![t] = TRAP_INTR]
  /\ pc' = [pc EXCEPT ![t] = "trap_set"]
  /\ UNCHANGED << registers, memory, cpu_lock, intr_mask, intr_event, exit_event,
                  cont, ir, pre, hist, step_traps, deferred, after_dsi, last >>

\* trap(): intr_event.set(), before the lock is asked for (cpu.py:42).
TrapSet(t) ==
  /\ pc[t] = "trap_set"
  /\ intr_event' = TRUE
  /\ pc' = [pc EXCEPT ![t] = "trap_lock"]
  /\ UNCHANGED << registers, memory, cpu_lock, intr_mask, intr_pending, exit_event,
                  tvec, cont, ir, pre, hist, step_traps, deferred, after_dsi, last >>

\* trap(): the part under the lock (cpu.py:44-55): dsi, the escalation, the
\* register writes, intr_event.clear().  A producer takes the lock and gives
\* it back within the step; the fetch loop re-enters the lock it holds.
TrapBody(t) ==
  /\ pc[t] = "trap_lock"
  /\ CanAcquire(t)
  /\ intr_mask' = TRUE
  /\ registers' = trap(registers, tvec[t])
  /\ intr_event' = FALSE
  /\ tvec' = IF t = "cpu" THEN tvec ELSE [tvec EXCEPT ![t] = 0]
  /\ pc' = [pc EXCEPT ![t] = Return(t)]
  /\ step_traps' = IF t = "cpu" THEN step_traps + 1 ELSE step_traps
  /\ hist' = IF t = "cpu" /\ CurName = "ret" THEN hist
             ELSE IF hist.n = 0 /\ registers[REG_TRAP] = 0
                  THEN [n |-> 1, pc0 |-> registers[REG_PC]]
                  ELSE [hist EXCEPT !.n = 2]
  /\ UNCHANGED << memory, cpu_lock, intr_pending, exit_event, cont, ir, pre, deferred, after_dsi, last >>

\* ------------------------------------------------------------ the producer
\* A producer thread calls intr(), or trap(v) itself, any number of times.
ProducerCall(p) ==
  /\ pc[p] = "idle"
  /\ \/ /\ pc' = [pc EXCEPT ![p] = "intr_test"]
        /\ UNCHANGED tvec
     \/ \E v \in DirectVectors :
          /\ tvec' = [tvec EXCEPT ![p] = v]
          /\ pc' = [pc EXCEPT ![p] = "trap_set"]
  /\ UNCHANGED << registers, memory, cpu_lock, intr_mask, intr_pending, intr_event,
                  exit_event, cont, ir, pre, hist, step_traps, deferred, after_dsi, last >>

\* ---------------------------------------------------------- the fetch loop
\* decode_next_instr: after sleep(0), `with self.cpu_lock` (cpu.py:345-346).
CpuAcquire ==
  /\ pc["cpu"] = "yield"
  /\ CanAcquire("cpu")
  /\ cpu_lock' = "cpu"
  /\ pc' = [pc EXCEPT !["cpu"] = "fetch"]
  /\ ir' = << >>
  /\ pre' = [NoPre EXCEPT !.start = registers]
  /\ UNCHANGED << registers, memory, intr_mask, intr_pending, intr_event, exit_event,
                  tvec, cont, hist, step_traps, deferred, after_dsi, last >>

\* A latch that advances PC by two words.
LatchedTwice(r) == [r EXCEPT ![REG_PC] = @ + 8]

\* After a word read: the local takes RESVD, PC advances by 4
\* (cpu.py:349-350 and the three repetitions).
Latched(r) == [r EXCEPT ![REG_PC] = @ + 4]
AfterWord(w) == IF Len(w) = 4 THEN "decode" ELSE "fetch"

\* One loadw(REG_RESVD, PC) of the fetch (cpu.py:348, 352, 356, 360) with
\* the latch that follows it; a trapping loadw leaves the latch to CpuLatch,
\* a raising one ends the fetch loop and releases the lock.
CpuFetchWord ==
  /\ pc["cpu"] = "fetch"
  /\ LET res == loadw(registers, memory, REG_RESVD, registers[REG_PC])
     IN  IF res.trap # 0
         THEN /\ tvec' = [tvec EXCEPT !["cpu"] = res.trap]
              /\ cont' = "latch"
              /\ pc' = [pc EXCEPT !["cpu"] = "trap_set"]
              /\ UNCHANGED << registers, ir, cpu_lock >>
         ELSE IF res.exc
         THEN /\ registers' = res.regs
              /\ pc' = [pc EXCEPT !["cpu"] = "crashed"]
              /\ cpu_lock' = "free"
              /\ UNCHANGED << tvec, cont, ir >>
         ELSE /\ registers' = Latched(res.regs)
              /\ ir' = Append(ir, res.regs[REG_RESVD])
              /\ pc' = [pc EXCEPT !["cpu"] = AfterWord(ir')]
              /\ UNCHANGED << tvec, cont, cpu_lock >>
  /\ UNCHANGED << memory, intr_mask, intr_pending, intr_event, exit_event, pre, hist, step_traps, deferred, after_dsi, last >>

\* The latch after a loadw that trapped: the local takes whatever RESVD
\* holds, PC (now the vector) advances by 4.
CpuLatch ==
  /\ pc["cpu"] = "latch"
  /\ registers' = Latched(registers)
  /\ ir' = Append(ir, registers[REG_RESVD])
  /\ pc' = [pc EXCEPT !["cpu"] = AfterWord(ir')]
  /\ UNCHANGED << memory, cpu_lock, intr_mask, intr_pending, intr_event, exit_event,
                  tvec, cont, pre, hist, step_traps, deferred, after_dsi, last >>

\* The type check of the operands (cpu.py:375-384): an operand of kind REG
\* above REG_RESVD.
BadRegister(kinds, ops) ==
  \E i \in 1 .. 3 : kinds[i] = IA_REG /\ ops[i] > REG_RESVD

\* arglist: the operands whose kind is not NONE, in order.
ArgList(kinds, ops) ==
  (IF kinds[1] # IA_NONE THEN << ops[1] >> ELSE << >>)
  \o (IF kinds[2] # IA_NONE THEN << ops[2] >> ELSE << >>)
  \o (IF kinds[3] # IA_NONE THEN << ops[3] >> ELSE << >>)

CurKinds == SubSeq(INSTRS[ir[1] + 1], 1, 3)
CurOps == SubSeq(ir, 2, 4)

\* The opcode check and the operand check (cpu.py:364-384).
CpuDecode ==
  /\ pc["cpu"] = "decode"
  /\ pre' = [pre EXCEPT !.regs = registers, !.mask = intr_mask,
                         !.pending = intr_pending]
  /\ IF ir[1] >= Len(INSTRS) \/ BadRegister(CurKinds, CurOps)
     THEN /\ tvec' = [tvec EXCEPT !["cpu"] = TRAP_ILL]
          /\ cont' = "end"
          /\ pc' = [pc EXCEPT !["cpu"] = "trap_set"]
     ELSE /\ pc' = [pc EXCEPT !["cpu"] = "dispatch"]
          /\ UNCHANGED << tvec, cont >>
  /\ UNCHANGED << registers, memory, cpu_lock, intr_mask, intr_pending, intr_event,
                  exit_event, ir, hist, step_traps, deferred, after_dsi, last >>

\* instr_fn(self, *arglist) (cpu.py:386) for an operation on registers and
\* memory.
CpuExec ==
  /\ pc["cpu"] = "dispatch"
  /\ CurName \notin ControlOps
  /\ LET res == Exec(CurName, ArgList(CurKinds, CurOps), registers, memory)
     IN  /\ registers' = res.regs
         /\ memory' = res.mem
         /\ IF res.trap # 0
            THEN /\ tvec' = [tvec EXCEPT !["cpu"] = res.trap]
                 /\ pc' = [pc EXCEPT !["cpu"] = "trap_set"]
                 /\ UNCHANGED cpu_lock
            ELSE IF res.exc
            THEN /\ pc' = [pc EXCEPT !["cpu"] = "crashed"]
                 /\ cpu_lock' = "free"
                 /\ UNCHANGED tvec
            ELSE /\ pc' = [pc EXCEPT !["cpu"] = "end"]
                 /\ UNCHANGED << tvec, cpu_lock >>
  /\ cont' = "end"
  /\ hist' = NoHist
  /\ UNCHANGED << intr_mask, intr_pending, intr_event, exit_event, ir, pre,
                  step_traps, deferred, after_dsi, last >>

\* halt (cpu.py:209-213): end_threads sets exit_event; quit() leaves the
\* step, which releases the lock.
CpuHalt ==
  /\ pc["cpu"] = "dispatch"
  /\ CurName = "halt"
  /\ exit_event' = TRUE
  /\ pc' = [pc EXCEPT !["cpu"] = "halted"]
  /\ cpu_lock' = "free"
  /\ hist' = NoHist
  /\ UNCHANGED << registers, memory, intr_mask, intr_pending, intr_event, tvec, cont,
                  ir, pre, step_traps, deferred, after_dsi, last >>

\* The intr instruction: the fetch loop calls intr() itself.
CpuIntr ==
  /\ pc["cpu"] = "dispatch"
  /\ CurName = "intr"
  /\ pc' = [pc EXCEPT !["cpu"] = "intr_test"]
  /\ cont' = "end"
  /\ hist' = NoHist
  /\ UNCHANGED << registers, memory, cpu_lock, intr_mask, intr_pending, intr_event,
                  exit_event, tvec, ir, pre, step_traps, deferred, after_dsi, last >>

\* ret (cpu.py:222-225): the register writes, then eni's intr_mask = False.
CpuRet ==
  /\ pc["cpu"] = "dispatch"
  /\ CurName = "ret"
  /\ registers' = ret(registers)
  /\ intr_mask' = FALSE
  /\ pc' = [pc EXCEPT !["cpu"] = "eni_test"]
  /\ cont' = "end"
  /\ UNCHANGED << memory, cpu_lock, intr_pending, intr_event, exit_event, tvec, ir,
                  pre, hist, step_traps, deferred, after_dsi, last >>

\* eni (cpu.py:227-228): intr_mask = False.
CpuEni ==
  /\ pc["cpu"] = "dispatch"
  /\ CurName = "eni"
  /\ intr_mask' = FALSE
  /\ pc' = [pc EXCEPT !["cpu"] = "eni_test"]
  /\ cont' = "end"
  /\ hist' = NoHist
  /\ UNCHANGED << registers, memory, cpu_lock, intr_pending, intr_event, exit_event,
                  tvec, ir, pre, step_traps, deferred, after_dsi, last >>

\* eni that never looks at intr_pending.
CpuEniNoTest ==
  /\ pc["cpu"] = "eni_test"
  /\ pc' = [pc EXCEPT !["cpu"] = "end"]
  /\ UNCHANGED << registers, memory, cpu_lock, intr_mask, intr_pending, intr_event,
                  exit_event, tvec, cont, ir, pre, hist, step_traps, deferred, after_dsi, last >>

\* eni (cpu.py:229-230): the test of intr_pending; intr() if it is set.
CpuEniTest ==
  /\ pc["cpu"] = "eni_test"
  /\ pc' = [pc EXCEPT !["cpu"] = IF intr_pending THEN "intr_test" ELSE "end"]
  /\ UNCHANGED << registers, memory, cpu_lock, intr_mask, intr_pending, intr_event,
                  exit_event, tvec, cont, ir, pre, hist, step_traps, deferred, after_dsi, last >>

\* dsi (cpu.py:232-233).
CpuDsi ==
  /\ pc["cpu"] = "dispatch"
  /\ CurName = "dsi"
  /\ intr_mask' = TRUE
  /\ pc' = [pc EXCEPT !["cpu"] = "end"]
  /\ hist' = NoHist
  /\ after_dsi' = TRUE
  /\ UNCHANGED << registers, memory, cpu_lock, intr_pending, intr_event, exit_event,
                  tvec, cont, ir, pre, step_traps, deferred, last >>

\* wait (cpu.py:235-236): the call of intr_event.wait(), inside the step.
CpuWait ==
  /\ pc["cpu"] = "dispatch"
  /\ CurName = "wait"
  /\ pc' = [pc EXCEPT !["cpu"] = "wait"]
  /\ hist' = NoHist
  /\ UNCHANGED << registers, memory, cpu_lock, intr_mask, intr_pending, intr_event,
                  exit_event, tvec, cont, ir, pre, step_traps, deferred, after_dsi, last >>

\* intr_event.wait() returns once the event is set.
CpuWaitReturn ==
  /\ pc["cpu"] = "wait"
  /\ intr_event
  /\ pc' = [pc EXCEPT !["cpu"] = "end"]
  /\ UNCHANGED << registers, memory, cpu_lock, intr_mask, intr_pending, intr_event,
                  exit_event, tvec, cont, ir, pre, hist, step_traps, deferred, after_dsi, last >>

\* The end of the step: the `with` block releases the lock.
CpuEnd ==
  /\ pc["cpu"] = "end"
  /\ cpu_lock' = "free"
  /\ pc' = [pc EXCEPT !["cpu"] = "yield"]
  /\ ir' = << >>
  /\ pre' = NoPre
  /\ step_traps' = 0
  /\ deferred' = IF CurName \in {"eni", "ret"} THEN 0 ELSE deferred
  /\ after_dsi' = IF CurName \in {"eni", "ret"} THEN FALSE ELSE after_dsi
  /\ last' = [name |-> CurName, ops |-> CurOps, regs |-> pre.regs]
  /\ hist' = IF CurName = "ret" THEN NoHist ELSE hist
  /\ tvec' = [tvec EXCEPT !["cpu"] = 0]
  /\ UNCHANGED << registers, memory, intr_mask, intr_pending, intr_event, exit_event,
                  cont >>

\* ------------------------------------------------------- specifications
\* The steps of the fetch loop that need no other thread.
CpuStep ==
  \/ CpuAcquire
  \/ CpuFetchWord
  \/ CpuLatch
  \/ CpuDecode
  \/ CpuExec
  \/ CpuHalt
  \/ CpuIntr
  \/ CpuRet
  \/ CpuEni
  \/ CpuEniTest
  \/ CpuDsi
  \/ CpuWait
  \/ CpuEnd
  \/ IntrTest("cpu")
  \/ IntrDefer("cpu")
  \/ IntrClear("cpu")
  \/ TrapSet("cpu")
  \/ TrapBody("cpu")

CpuNext == CpuStep \/ CpuWaitReturn

ProducerNext ==
  \E p \in Producers :
    \/ ProducerCall(p)
    \/ IntrTest(p)
    \/ IntrDefer(p)
    \/ IntrClear(p)
    \/ TrapSet(p)
    \/ TrapBody(p)

Next == CpuNext \/ ProducerNext

\* The fetch loop beside the producer.
Spec == Init /\ [][Next]_vars

\* The fetch loop alone: every call is made by the one thread, and nothing
\* sets intr_event for a wait to return.
SeqSpec == Init /\ [][CpuStep]_vars

\* The fetch loop alone on the arithmetic programs.
OpSpec == OpInit /\ [][CpuStep]_vars

\* Both threads keep running: each takes a step it stays able to take.
FairSpec == Spec /\ WF_vars(CpuNext) /\ WF_vars(ProducerNext)

\* ------------------------------------------------------------ properties
\* The step is the locked part of a trap() call by thread t.
TrapBodyStep(t) == pc[t] = "trap_lock" /\ pc'[t] # "trap_lock"

\* The fetch loop is inside a fetch-decode-dispatch step.
InStep == pc["cpu"] \notin {"yield", "halted", "crashed"}

\* C1.  Double-trap escalation: trap(v) with v one of INTR, ILL, DIV, run in
\* a state where TRAP = 1, ends with PC = DTRAP, RET = the PC it found and
\* TRAP = 1 (so PC is not v).
C1_DoubleTrap ==
  [][\A t \in Threads :
       (/\ TrapBodyStep(t)
        /\ registers[REG_TRAP] = 1
        /\ tvec[t] \in {TRAP_INTR, TRAP_ILL, TRAP_DIV})
       => (/\ registers'[REG_PC] = TRAP_DTRAP
           /\ registers'[REG_PC] # tvec[t]
           /\ registers'[REG_RET] = registers[REG_PC]
           /\ registers'[REG_TRAP] = 1)]_vars

\* The fetch loop has just trapped ILL at the decode with TRAP = 1 and
\* stands at the double-trap vector.
C1_Witness ==
  /\ pc["cpu"] = "end"
  /\ tvec["cpu"] = TRAP_ILL
  /\ step_traps = 1
  /\ pre.regs[REG_TRAP] = 1
  /\ registers[REG_PC] = TRAP_DTRAP
  /\ registers[REG_RET] = pre.regs[REG_PC]
  /\ registers[REG_TRAP] = 1

\* C2.  Trap entry: trap(v), for any vector v, run in a state where
\* TRAP = 0, ends with TRAP = 1, RET = the PC it found, PC = v, intr_mask
\* true and intr_event clear.
C2_TrapEntry ==
  [][\A t \in Threads :
       (TrapBodyStep(t) /\ registers[REG_TRAP] = 0)
       => (/\ registers'[REG_TRAP] = 1
           /\ registers'[REG_RET] = registers[REG_PC]
           /\ registers'[REG_PC] = tvec[t]
           /\ intr_mask'
           /\ ~intr_event')]_vars

\* The fetch loop has just trapped DIV from TRAP = 0.
C2_Witness ==
  /\ pc["cpu"] = "end"
  /\ tvec["cpu"] = TRAP_DIV
  /\ step_traps = 1
  /\ pre.regs[REG_TRAP] = 0
  /\ registers[REG_TRAP] = 1
  /\ registers[REG_PC] = TRAP_DIV
  /\ registers[REG_RET] = pre.regs[REG_PC]
  /\ registers[REG_RET] # TRAP_DIV
  /\ intr_mask
  /\ ~intr_event

\* C7.  At-step-boundary delivery: while the fetch loop is inside a step, no
\* step of a producer changes PC, RET or TRAP.
C7_StepBoundary ==
  [][(InStep /\ \E p \in Producers : pc'[p] # pc[p])
       => (/\ registers'[REG_PC] = registers[REG_PC]
           /\ registers'[REG_RET] = registers[REG_RET]
           /\ registers'[REG_TRAP] = registers[REG_TRAP])]_vars

\* A producer is inside trap(), past intr_event.set(), and waits for the
\* lock the fetch loop holds in the middle of a step.
C7_Witness ==
  /\ pc["cpu"] = "dispatch"
  /\ cpu_lock = "cpu"
  /\ \E p \in Producers : pc[p] = "trap_lock" /\ ~CanAcquire(p)

\* The fetch loop has finished the operation `name` and is about to end
\* the step.
Done(name) == pc["cpu"] = "end" /\ CurName = name

\* C3, first part.  After dsi, intr calls take no trap and leave
\* intr_pending true: an intr that finds the mask set changes no register
\* and sets intr_pending, and intr_pending stays set between steps while
\* the mask is.
C3_Deferred ==
  /\ (pc["cpu"] = "yield" /\ intr_mask /\ deferred >= 1) => intr_pending
  /\ (Done("intr") /\ pre.mask)
     => (step_traps = 0 /\ intr_pending /\ registers = pre.regs)

\* What the eni after n >= 1 deferred intr calls leaves: one INTR trap,
\* PC = 0x10, TRAP = 1, RET = PC at the eni, intr_pending false.
C3_Delivered ==
  /\ step_traps = 1
  /\ tvec["cpu"] = TRAP_INTR
  /\ registers[REG_PC] = TRAP_INTR
  /\ registers[REG_TRAP] = 1
  /\ registers[REG_RET] = pre.regs[REG_PC]
  /\ ~intr_pending

C4_MaskedDeferred ==
  [][\A p \in Producers :
       (TrapBodyStep(p) /\ tvec[p] = TRAP_INTR) => ~intr_mask]_vars

\* C5.  Between two steps of the fetch loop, never intr_mask false with
\* intr_pending true.
C5_PendingTransient ==
  pc["cpu"] = "yield" => ~(~intr_mask /\ intr_pending)

\* C6 as stated.  ret after exactly one trap(v) taken from TRAP = 0 leaves
\* PC at the value it had before that trap, and TRAP = 0.
C6_Original ==
  (Done("ret") /\ hist.n = 1)
  => (registers[REG_PC] = hist.pc0 /\ registers[REG_TRAP] = 0)

\* C6 as amended.  ret after exactly one trap(v) taken from TRAP = 0 leaves
\* PC at the value it had before that trap, and TRAP = 0, when its eni finds
\* no interrupt pending; when one is pending ret delivers it and ends with
\* PC = 0x10, TRAP = 1 and RET at the value PC had before the first trap.
C6_RetRestores ==
  (Done("ret") /\ hist.n = 1)
  => IF step_traps = 0
     THEN registers[REG_PC] = hist.pc0 /\ registers[REG_TRAP] = 0
     ELSE /\ step_traps = 1
          /\ registers[REG_PC] = TRAP_INTR
          /\ registers[REG_TRAP] = 1
          /\ registers[REG_RET] = hist.pc0

\* ret has returned from the one trap: PC is back where it was, which is
\* not where ret stood.
C6_Witness ==
  /\ Done("ret")
  /\ hist.n = 1
  /\ step_traps = 0
  /\ pre.regs[REG_TRAP] = 1
  /\ registers[REG_TRAP] = 0
  /\ registers[REG_PC] = hist.pc0
  /\ registers[REG_PC] # pre.regs[REG_PC]

\* C8.  Wake-up: whenever the fetch loop is blocked in wait and a producer
\* then calls intr(), wait returns.
C8_WakeUp ==
  (pc["cpu"] = "wait" /\ ~intr_event /\ \E p \in Producers : pc[p] = "intr_test")
  ~> (pc["cpu"] # "wait")

\* C9.  While the fetch loop is blocked in wait, a producer can take the
\* CPU lock.
C9_WaitReleasesLock ==
  pc["cpu"] = "wait" => \A p \in Producers : CanAcquire(p)

\* C10.  A decoded instruction with an operand of kind REG above 0x1F traps
\* ILL and does nothing else: at the end of the step the registers are those
\* trap(ILL) leaves from the registers the instruction found.
C10_IllegalRegister ==
  (/\ pc["cpu"] = "end"
   /\ CurName \notin {"none", "illegal"}
   /\ \E i \in 1 .. 3 : CurKinds[i] = IA_REG /\ CurOps[i] > REG_RESVD - 1)
  => (/\ step_traps = 1
      /\ registers = trap(pre.regs, TRAP_ILL)
      /\ memory \in {Image(p) : p \in Programs})

\* The fetch loop has dispatched the operation `name` (its operands passed
\* the decoder) and is about to end the step.
Ran(name) == Done(name) /\ ~BadRegister(CurKinds, CurOps)

\* A div or divi has run with a divisor of 0.
DivByZero ==
  \/ Ran("div") /\ pre.regs[CurOps[2]] = 0
  \/ Ran("divi") /\ CurOps[2] = 0

\* C11 as stated.  Division by zero: a div or divi whose divisor is 0 does
\* not modify the destination register, and leaves PC = DIV (0x30).
C11_Original ==
  DivByZero
  => (/\ registers[CurOps[3]] = pre.regs[CurOps[3]]
      /\ registers[REG_PC] = TRAP_DIV)

\* C11 as amended.  A div or divi whose divisor is 0 modifies no register
\* but PC, RET and TRAP (and, for divi, the scratch register), so the
\* destination is unmodified unless it is one of these; it leaves TRAP = 1
\* and PC = DIV (0x30) if TRAP was 0 before it, PC = DTRAP (0x40) if TRAP
\* was 1.
C11_DivByZero ==
  DivByZero
  => (/\ \A i \in Regs \ {REG_PC, REG_RET, REG_TRAP} :
           (i = REG_RESVD /\ CurName = "divi") \/ registers[i] = pre.regs[i]
      /\ registers[REG_TRAP] = 1
      /\ registers[REG_PC] = IF pre.regs[REG_TRAP] = 0 THEN TRAP_DIV ELSE TRAP_DTRAP
      /\ memory \in {Image(c.prog) : c \in OpCases})

\* A div of a dividend other than 0 by 0, with TRAP = 0, has left R8 as it
\* was and PC at DIV.
C11_Witness ==
  /\ Ran("div")
  /\ pre.regs[CurOps[2]] = 0
  /\ pre.regs[CurOps[1]] # 0
  /\ pre.regs[REG_TRAP] = 0
  /\ CurOps[3] = 8
  /\ registers[8] = pre.regs[8]
  /\ registers[REG_PC] = TRAP_DIV
  /\ registers[REG_TRAP] = 1

\* The four words of the instruction were read at the PC the step began
\* with: no read of the fetch trapped.
FetchedInPlace == pre.regs[REG_TRAP] = pre.start[REG_TRAP]

\* C12.  Illegal opcode: an instruction fetched at PC = p with TRAP = 0
\* whose opcode word is not below the length of the table ends the step
\* with PC = ILL (0x20), TRAP = 1 and RET = p + 16; registers 0x06 to 0x1F
\* and memory are as they were.
C12_IllegalOpcode ==
  (Done("illegal") /\ FetchedInPlace /\ pre.start[REG_TRAP] = 0)
  => (/\ registers[REG_PC] = TRAP_ILL
      /\ registers[REG_TRAP] = 1
      /\ registers[REG_RET] = pre.start[REG_PC] + 16
      /\ step_traps = 1
      /\ \A i \in 6 .. 31 : registers[i] = pre.start[i]
      /\ memory \in {Image(c.prog) : c \in OpCases})

\* Opcode 0xFF fetched at 0 with TRAP = 0 has trapped to ILL.
C12_Witness ==
  /\ Done("illegal")
  /\ FetchedInPlace
  /\ ir[1] = 255
  /\ pre.start[REG_TRAP] = 0
  /\ pre.start[REG_PC] = 0
  /\ registers[REG_PC] = TRAP_ILL
  /\ registers[REG_RET] = 16
  /\ registers[REG_TRAP] = 1

\* C13.  Register range: after any instruction every register lies in
\* MINVAL .. MAXVAL, CARRY is 0 or 1 and TRAP is 0 or 1.
C13_RegisterRange ==
  (pc["cpu"] = "yield" /\ last.name # "none")
  => (/\ \A i \in Regs : registers[i] >= MINVAL /\ registers[i] <= MAXVAL
      /\ registers[REG_CARRY] \in {0, 1}
      /\ registers[REG_TRAP] \in {0, 1})

\* The previous instruction was a word store, this one is a word load that
\* has run, and both name the same address a, with a + 3 <= MAXVAL.
StoreAddr ==
  IF last.name = "savewr" THEN last.regs[last.ops[2]] ELSE last.ops[2]
StoredValue ==
  IF last.name = "savewi" THEN last.ops[1] ELSE last.regs[last.ops[1]]
LoadAddr ==
  IF CurName = "loadwr" THEN pre.regs[CurOps[2]] ELSE CurOps[2]
StoreThenLoad ==
  /\ last.name \in {"savew", "savewr", "savewi"}
  /\ Ran("loadw") \/ Ran("loadwr")
  /\ LoadAddr = StoreAddr
  /\ StoreAddr + 3 <= MAXVAL

\* C14 as stated.  Word round trip: a word store followed immediately by a
\* word load from the same address loads the stored value.
C14_Original ==
  StoreThenLoad => registers[CurOps[1]] = StoredValue

\* C14 as amended.  A word store followed immediately by a word load from
\* the same address loads the stored value reduced modulo MAXVAL + 1 (the
\* stored value itself when it lies in 0 .. MAXVAL), the four cells holding
\* it big-endian.
C14_RoundTrip ==
  StoreThenLoad
  => (/\ registers[CurOps[1]] = StoredValue % (MAXVAL + 1)
      /\ (StoredValue >= 0 /\ StoredValue <= MAXVAL)
           => registers[CurOps[1]] = StoredValue
      /\ \A k \in 0 .. 3 :
           memory[MemIdx(StoreAddr + k)]
             = WordCells(StoredValue % (MAXVAL + 1))[k + 1])

\* savew of MAXVAL - 1, whose cells differ, and loadw from the same address
\* into R8 have run.
C14_Witness ==
  /\ StoreThenLoad
  /\ StoredValue = MAXVAL - 1
  /\ CurOps[1] = 8
  /\ pre.regs[8] = 0
  /\ registers[8] = MAXVAL - 1
  /\ memory[StoreAddr + 3] = ByteRange - 2

\* The raw result of the add, mul or sub that has run.
RawResult ==
  IF CurName = "add" THEN pre.regs[CurOps[1]] + pre.regs[CurOps[2]]
  ELSE IF CurName = "mul" THEN pre.regs[CurOps[1]] * pre.regs[CurOps[2]]
  ELSE pre.regs[CurOps[1]] - pre.regs[CurOps[2]]

\* C15.  add and mul reduction: the destination receives the raw result
\* modulo MAXVAL, a residue from 0 to MAXVAL - 1 (0 for a raw result of
\* MAXVAL, 1 for MAXVAL + 1), and CARRY is 1 if the raw result is above
\* MAXVAL, else 0.
C15_AddMulReduction ==
  (Ran("add") \/ Ran("mul"))
  => (/\ registers[CurOps[3]] >= 0
      /\ registers[CurOps[3]] < MAXVAL
      /\ (RawResult - registers[CurOps[3]]) % MAXVAL = 0
      /\ RawResult = MAXVAL => registers[CurOps[3]] = 0
      /\ RawResult = MAXVAL + 1 => registers[CurOps[3]] = 1
      /\ registers[REG_CARRY] = IF RawResult > MAXVAL THEN 1 ELSE 0)

\* An add with raw result MAXVAL + 1 has left 1 and CARRY = 1.
C15_Witness ==
  /\ Ran("add")
  /\ RawResult = MAXVAL + 1
  /\ registers[CurOps[3]] = 1
  /\ registers[REG_CARRY] = 1

\* C20.  sub reduction: the destination receives the difference reduced
\* modulo MINVAL, a residue above MINVAL and not above 0, and CARRY is 1 if
\* the raw difference is below MINVAL, else 0.
C20_SubReduction ==
  Ran("sub")
  => (/\ registers[CurOps[3]] > MINVAL
      /\ registers[CurOps[3]] <= 0
      /\ (RawResult - registers[CurOps[3]]) % (-MINVAL) = 0
      /\ registers[REG_CARRY] = IF RawResult < MINVAL THEN 1 ELSE 0)

\* A sub with raw difference MINVAL - 1 has left -1 and CARRY = 1.
C20_Witness ==
  /\ Ran("sub")
  /\ RawResult = MINVAL - 1
  /\ registers[CurOps[3]] = -1
  /\ registers[REG_CARRY] = 1

\* The register form of an immediate form.
RegisterForm(name) ==
  CASE name = "addi" -> "add"
    [] name = "subi" -> "sub"
    [] name = "muli" -> "mul"
    [] name = "divi" -> "div"

\* C16.  Immediate forms agree with register forms: after addi, subi, muli
\* or divi with source r1, immediate imm and destination r2, the
\* destination and CARRY are what the register form leaves when its two
\* sources hold the value r1 had before the instruction, and imm.
C16_ImmediateForms ==
  (\E n \in {"addi", "subi", "muli", "divi"} : Ran(n))
  => LET res == Exec(RegisterForm(CurName), << 6, 7, CurOps[3] >>,
                     [pre.regs EXCEPT ![6] = pre.regs[CurOps[1]], ![7] = CurOps[2]],
                     memory)
     IN  /\ registers[CurOps[3]] = res.regs[CurOps[3]]
         /\ registers[REG_CARRY] = res.regs[REG_CARRY]

\* C17.  swap(r1, r2) exchanges the two registers and changes no other.
C17_SwapExchanges ==
  Ran("swap")
  => (/\ registers[CurOps[1]] = pre.regs[CurOps[2]]
      /\ registers[CurOps[2]] = pre.regs[CurOps[1]]
      /\ \A i \in Regs \ {CurOps[1], CurOps[2]} : registers[i] = pre.regs[i])

\* C18.  A trap aborts the step: once the fetch loop has run a trap in a
\* step, nothing in the rest of the step changes a register or memory.
C18_TrapAbortsStep ==
  [][(InStep /\ step_traps >= 1) => (registers' = registers /\ memory' = memory)]_vars

\* C19.  Lock discipline: a thread that tests intr_mask or writes
\* intr_pending inside intr() holds the CPU lock.
C19_LockDiscipline ==
  [][\A t \in Threads :
       (pc[t] \in {"intr_test", "intr_defer", "intr_clear"} /\ pc'[t] # pc[t])
       => cpu_lock = t]_vars

====
